---- MODULE Spec2Model ----
(***************************************************************************)
(* Model of the Morpheus LLM engine core:                                  *)
(*   - ControlMessage (src/morpheus/_lib/src/messages/control.cpp)         *)
(*   - LLMEngine::run / handle_tasks (src/morpheus/_lib/src/llm/           *)
(*     llm_engine.cpp)                                                     *)
(*   - LLMContext output publication (declared in llm_context.hpp)         *)
(*                                                                         *)
(* Three specifications share the variables:                               *)
(*   Spec     the engine's run coroutine over one input message            *)
(*   SpecCM   client calls on ControlMessage objects                       *)
(*   SpecCtx  output publication on one LLMContext                         *)
(***************************************************************************)
EXTENDS Integers, Sequences, FiniteSets, TLC

VARIABLES
    \* ---- heap of ControlMessage objects
    msgs,             \* MsgIds -> [live, cm_type, tasks]
    \* ---- history of the client calls of SpecCM
    inherited,        \* MsgIds -> (type -> queue the object was copy-constructed with)
    addLog,           \* MsgIds -> (type -> tasks given to the successful add_task calls)
    remLog,           \* MsgIds -> (type -> tasks returned by the successful remove_task calls)
    ret,              \* the last client call and its outcome
    \* ---- LLMEngine
    m_task_handlers,  \* registered runners, in registration order
    input_message,    \* the shared_ptr given to run: NULLPTR or a message id
    pc,               \* position of the run coroutine
    output_messages,  \* run's local accumulator
    context,          \* the root context of the task being processed
    handlerIdx,       \* position of handle_tasks' for loop
    result,           \* what the run awaitable delivered
    error,            \* the error the run awaitable completed with
    \* ---- history of the run
    entry_msgs,       \* the heap when run was entered
    drained,          \* tasks removed by run's loop, in order
    consultLog,       \* per drained task: the runners consulted and what they returned
    chosen,           \* per accepted task: the vector its accepting handler returned
    execCalls,        \* number of execute calls
    handleCalls,      \* number of handle_tasks calls
    ctxBuilt,         \* number of root contexts built
    raised,           \* errors raised inside run, in order
    nodeAdds,         \* llm_engine tasks added by nodes and handlers during the run
    nodeRemoves,      \* llm_engine tasks removed by nodes during the run
    seenValues,       \* what the root contexts of the tasks processed so far had published
    \* ---- LLMContext (SpecCtx)
    ctx,              \* one context: [name, output_names, outputs, ready]
    state_values,     \* LLMContextState::values of the tree the context belongs to
    ctxRet,           \* the last call on the context and its outcome
    \* ---- LLMTaskHandlerRunner (SpecRunner)
    runnerState       \* try_handle calls on one context: [pc, handler, children, pushes, pops, log]

cmHist  == <<inherited, addLog, remLog, ret>>
cmVars  == <<msgs, inherited, addLog, remLog, ret>>
engVars == <<m_task_handlers, input_message, pc, output_messages, context, handlerIdx,
             result, error>>
engHist == <<entry_msgs, drained, consultLog, chosen, execCalls, handleCalls, ctxBuilt, raised,
             nodeAdds, nodeRemoves, seenValues>>
ctxVars == <<ctx, state_values, ctxRet>>
runVars == <<runnerState>>
vars    == <<msgs, inherited, addLog, remLog, ret,
             m_task_handlers, input_message, pc, output_messages, context, handlerIdx,
             result, error,
             entry_msgs, drained, consultLog, chosen, execCalls, handleCalls, ctxBuilt, raised,
             nodeAdds, nodeRemoves, seenValues, ctx, state_values, ctxRet, runnerState>>

(***************************************************************************)
(* Bounds                                                                  *)
(***************************************************************************)
MaxTasks    == 3    \* llm_engine tasks the input message is given: at entry and by nodes
MaxHandlers == 2    \* registered task handlers
MaxVec      == 2    \* length of a vector returned by a handler
MaxCalls    == 2    \* successful add_task calls in SpecCM
MaxCfgTasks == 1    \* entries of a config's "tasks" array
MaxTry      == 2    \* try_handle calls in SpecRunner

(***************************************************************************)
(* Values                                                                  *)
(***************************************************************************)
NULLPTR    == 0
MsgIds     == {1, 2}
LLM_ENGINE == "llm_engine"
TaskTypes  == {"inference", "training", LLM_ENGINE}
NodeNames  == {"n"}

\* ControlMessageType
NONE      == "NONE"
INFERENCE == "INFERENCE"
TRAINING  == "TRAINING"

EmptyFcn == [x \in {} |-> 0]

\* s_task_type_map
s_task_type_map == [inference |-> INFERENCE, training |-> TRAINING]

\* TaskTypeOf taking a type that is not in the map for an inference type
TaskTypeOfInferenceByDefault(t) ==
    IF t \in DOMAIN s_task_type_map THEN s_task_type_map[t] ELSE INFERENCE

\* s_task_type_map.contains(t) ? s_task_type_map[t] : NONE
TaskTypeOf(t) == IF t \in DOMAIN s_task_type_map THEN s_task_type_map[t] ELSE NONE

\* ControlMessage(): no tasks; m_cm_type takes its default.  m_config (the metadata)
\* and the payload are left out: no operation on m_tasks or m_cm_type reads them.
NewMessage == [live |-> TRUE, cm_type |-> NONE, tasks |-> EmptyFcn]

\* a slot of the heap where no object has been constructed
NoMessage == [live |-> FALSE, cm_type |-> NONE, tasks |-> EmptyFcn]

\* m_tasks[task_type].push_back(task)
PushTask(tasks, type, task) ==
    [t \in (DOMAIN tasks) \cup {type} |->
        IF t = type
        THEN Append(IF type \in DOMAIN tasks THEN tasks[type] ELSE <<>>, task)
        ELSE tasks[t]]

\* SetTypeIfNone without the test for NONE
SetTypeAlways(cur, new) == new

\* ControlMessage::task_type(type) as called by add_task when the current type is NONE
SetTypeIfNone(cur, new) == IF cur = NONE THEN new ELSE cur

\* ControlMessage::add_task
AddTaskRes(m, type, task) ==
    LET tt  == TaskTypeOf(type)
        cm1 == SetTypeIfNone(m.cm_type, tt)
    IN  IF tt # NONE /\ cm1 # tt
        THEN [ok |-> FALSE, err |-> "MixedTaskCategories", msg |-> [m EXCEPT !.cm_type = cm1]]
        ELSE [ok |-> TRUE, err |-> "none",
              msg |-> [m EXCEPT !.cm_type = cm1, !.tasks = PushTask(m.tasks, type, task)]]

\* HasTask without the test of the array's size
HasTaskKeyOnly(m, type) == type \in DOMAIN m.tasks

\* ControlMessage::has_task
HasTask(m, type) == type \in DOMAIN m.tasks /\ Len(m.tasks[type]) > 0

\* m_tasks[type] when the key is present, no task otherwise
QueueAt(m, type) == IF type \in DOMAIN m.tasks THEN m.tasks[type] ELSE <<>>

\* FirstIndex taking the last element of the queue
LastIndex(q) == Len(q)

\* task_set.begin()
FirstIndex(q) == 1

\* EraseAt erasing the last element, whatever the iterator
EraseBack(q, i) == SubSeq(q, 1, Len(q) - 1)

\* task_set.erase(iter_task)
EraseAt(q, i) == [j \in 1..(Len(q) - 1) |-> IF j < i THEN q[j] ELSE q[j + 1]]

NoTask == [id |-> 0, wf |-> FALSE]

\* ControlMessage::remove_task
RemoveTaskRes(m, type) ==
    IF type \notin DOMAIN m.tasks
    THEN [ok |-> FALSE, err |-> "out_of_range", msg |-> m, task |-> NoTask]
    ELSE LET task_set == m.tasks[type]
             i        == FirstIndex(task_set)
         IN  IF Len(task_set) > 0
             THEN [ok |-> TRUE, err |-> "none", task |-> task_set[i],
                   msg |-> [m EXCEPT !.tasks[type] = EraseAt(task_set, i)]]
             ELSE [ok |-> FALSE, err |-> "NoTasksOfType", msg |-> m, task |-> NoTask]

\* the loop of config() over config["tasks"]: add_task for each entry, stopping at
\* the first one that throws
RECURSIVE AddAll(_, _)
AddAll(m, ts) ==
    IF ts = <<>> THEN [ok |-> TRUE, err |-> "none", msg |-> m, added |-> <<>>]
    ELSE LET r == AddTaskRes(m, ts[1].type, ts[1].properties)
         IN  IF ~r.ok THEN [ok |-> FALSE, err |-> r.err, msg |-> r.msg, added |-> <<>>]
             ELSE LET rest == AddAll(r.msg, Tail(ts))
                  IN  [ok |-> rest.ok, err |-> rest.err, msg |-> rest.msg,
                       added |-> <<ts[1]>> \o rest.added]

NoType == "absent"

\* ControlMessage::config(const json&): the "type" and the "tasks" of the config
\* (its "metadata" goes to m_config only)
ConfigRes(m, cfg) ==
    LET m1 == IF cfg.type # NoType
              THEN [m EXCEPT !.cm_type = SetTypeIfNone(m.cm_type, TaskTypeOf(cfg.type))]
              ELSE m
    IN  AddAll(m1, cfg.tasks)

\* ControlMessage(const ControlMessage& other): copies m_config and m_tasks;
\* m_cm_type is not copied and takes its default
CopyOf(other) == [live |-> TRUE, cm_type |-> NONE, tasks |-> other.tasks]


(***************************************************************************)
(* LLMEngine                                                               *)
(***************************************************************************)

\* a queued llm_engine task: wf says whether it holds a string "task_type" and a
\* "task_dict", which is what the construction of LLMTask in run needs
Task(i, wf) == [id |-> i, wf |-> wf]

\* LLMTaskHandler::return_t, an optional vector of ControlMessage
Nullopt   == [has_value |-> FALSE, value |-> <<>>]
Some(vec) == [has_value |-> TRUE, value |-> vec]

\* the vector of n new messages a handler builds for task t
NewMessages(t, n) == [k \in 1..n |-> [task |-> t.id, k |-> k]]

\* LLMContext(LLMTask task, shared_ptr<ControlMessage> message): a root context with a
\* state of its own holding the task and the message, no outputs, nothing published
ConstructRoot(task, message) ==
    [live |-> TRUE, task |-> task, message |-> message, outputs |-> {}, values |-> {}]

NoContext == [live |-> FALSE, task |-> NoTask, message |-> NULLPTR, outputs |-> {},
              values |-> {}]

\* what a node or handler does to the message it reaches through context->message()
MsgEffects == {"nothing", "add", "remove"}

ApplyEffect(m, eff, newTask) ==
    CASE eff = "add"    -> AddTaskRes(m, LLM_ENGINE, newTask).msg
      [] eff = "remove" -> RemoveTaskRes(m, LLM_ENGINE).msg
      [] OTHER          -> m

\* the id of the next task a node adds: after the tasks queued at entry
FreshId == Len(IF LLM_ENGINE \in DOMAIN entry_msgs[1].tasks
               THEN entry_msgs[1].tasks[LLM_ENGINE] ELSE <<>>) + nodeAdds + 1

EffectAllowed(eff) ==
    /\ eff = "add" => FreshId <= MaxTasks
    /\ eff = "remove" => HasTask(msgs[input_message], LLM_ENGINE)

\* LLMEngine::add_task_handler, called before run; a runner is named by the number
\* of the add_task_handler call that made it
AddTaskHandler ==
    /\ pc = "idle"
    /\ Len(m_task_handlers) < MaxHandlers
    /\ m_task_handlers' = Append(m_task_handlers, Len(m_task_handlers) + 1)
    /\ UNCHANGED <<input_message, pc, output_messages, context, handlerIdx, result, error>>
    /\ UNCHANGED engHist
    /\ UNCHANGED cmVars
    /\ UNCHANGED <<ctxVars, runVars>>

\* Unwind with the error caught inside run and the accumulated vector returned
UnwindDeliver(e) ==
    /\ pc' = "done"
    /\ error' = e
    /\ result' = Some(output_messages)
    /\ output_messages' = output_messages
    /\ raised' = Append(raised, e)

\* an exception leaves run: the coroutine frame (output_messages, context) is destroyed
\* and the awaitable completes with the error
Unwind(e) ==
    /\ pc' = "failed"
    /\ error' = e
    /\ result' = Nullopt
    /\ output_messages' = <<>>
    /\ raised' = Append(raised, e)

\* EntryError without the has_task check
EntryErrorNullOnly(im) == IF im = NULLPTR THEN "NullMessage" ELSE "none"

\* the two checks at the entry of run
EntryError(im) ==
    IF im = NULLPTR THEN "NullMessage"
    ELSE IF ~HasTask(msgs[im], LLM_ENGINE) THEN "NoEngineTask"
    ELSE "none"

\* LLMEngine::run, from the call to the first evaluation of the loop condition
RunEntry ==
    /\ pc = "idle"
    /\ entry_msgs' = msgs
    /\ IF EntryError(input_message) # "none"
       THEN /\ Unwind(EntryError(input_message))
       ELSE /\ pc' = "loop"
            /\ output_messages' = <<>>
            /\ UNCHANGED <<result, error, raised>>
    /\ UNCHANGED <<m_task_handlers, input_message, context, handlerIdx>>
    /\ UNCHANGED <<drained, consultLog, chosen, execCalls, handleCalls, ctxBuilt, nodeAdds,
                   nodeRemoves, seenValues>>
    /\ UNCHANGED cmVars
    /\ UNCHANGED <<ctxVars, runVars>>

\* RootContext with one context made before the loop and given the task of each
\* iteration
RootContextReused(task, message) ==
    [context EXCEPT !.live = TRUE, !.task = task, !.message = message]

\* auto context = std::make_shared<LLMContext>(LLMTask(...), input_message), made in
\* the body of the loop
RootContext(task, message) == ConstructRoot(task, message)

\* LoopContinues with the while written as an if
LoopContinuesOnce == HasTask(msgs[input_message], LLM_ENGINE) /\ drained = <<>>

\* while (input_message->has_task("llm_engine"))
LoopContinues == HasTask(msgs[input_message], LLM_ENGINE)

\* LLMEngine::run: one evaluation of the loop condition, then either co_return or
\* remove_task, LLMTask construction and the root context of the iteration
RunLoop ==
    /\ pc = "loop"
    /\ IF LoopContinues
       THEN LET r == RemoveTaskRes(msgs[input_message], LLM_ENGINE)
            IN  /\ msgs' = [msgs EXCEPT ![input_message] = r.msg]
                /\ drained' = Append(drained, r.task)
                /\ consultLog' = Append(consultLog, <<>>)
                /\ IF ~r.ok THEN Unwind(r.err) /\ UNCHANGED <<context, ctxBuilt>>
                   ELSE IF ~r.task.wf
                   THEN Unwind("TaskExtraction") /\ UNCHANGED <<context, ctxBuilt>>
                   ELSE /\ context' = RootContext(r.task, input_message)
                        /\ ctxBuilt' = ctxBuilt + 1
                        /\ pc' = "execute"
                        /\ UNCHANGED <<output_messages, result, error, raised>>
       ELSE /\ pc' = "done"
            /\ result' = Some(output_messages)
            /\ UNCHANGED <<msgs, drained, consultLog, context, ctxBuilt, output_messages,
                           error, raised>>
    /\ UNCHANGED <<m_task_handlers, input_message, handlerIdx>>
    /\ UNCHANGED <<entry_msgs, chosen, execCalls, handleCalls, nodeAdds, nodeRemoves,
                   seenValues>>
    /\ UNCHANGED cmHist
    /\ UNCHANGED <<ctxVars, runVars>>

\* co_await this->execute(context): the node graph runs against the context; it may
\* publish outputs, change the message in one of the ways effs, and fail
ExecuteWith(effs) ==
    /\ pc = "execute"
    /\ \E eff \in effs, ok \in BOOLEAN, published \in SUBSET NodeNames,
          wf \in BOOLEAN :
        /\ EffectAllowed(eff)
        /\ eff # "add" => wf
        /\ msgs' = [msgs EXCEPT ![input_message] = ApplyEffect(@, eff, Task(FreshId, wf))]
        /\ nodeAdds' = IF eff = "add" THEN nodeAdds + 1 ELSE nodeAdds
        /\ nodeRemoves' = IF eff = "remove" THEN nodeRemoves + 1 ELSE nodeRemoves
        /\ seenValues' = seenValues \cup published
        /\ execCalls' = execCalls + 1
        /\ IF ok
           THEN /\ context' = [context EXCEPT !.values = @ \cup published]
                /\ handlerIdx' = 1
                /\ handleCalls' = handleCalls + 1
                /\ pc' = "handle"
                /\ UNCHANGED <<output_messages, result, error, raised>>
           ELSE /\ published = {}
                /\ Unwind("ExecuteError")
                /\ UNCHANGED <<context, handlerIdx, handleCalls>>
    /\ UNCHANGED <<m_task_handlers, input_message>>
    /\ UNCHANGED <<entry_msgs, drained, consultLog, chosen, ctxBuilt>>
    /\ UNCHANGED cmHist
    /\ UNCHANGED <<ctxVars, runVars>>

Execute == ExecuteWith(MsgEffects)

\* RunnerAt iterating the runners from the last registered to the first
RunnerAtReversed(i) == m_task_handlers[Len(m_task_handlers) - i + 1]

\* for (auto& task_handler : m_task_handlers): the runner the i-th iteration reaches
RunnerAt(i) == m_task_handlers[i]

\* Accepted with an empty vector taken for a refusal
AcceptedNonEmpty(new_tasks) == new_tasks.has_value /\ Len(new_tasks.value) > 0

\* if (new_tasks.has_value())
Accepted(new_tasks) == new_tasks.has_value

\* InsertOutputs inserting at output_messages.begin()
InsertOutputsFront(out, tasks) == tasks \o out

\* output_messages.insert(output_messages.end(), tasks.begin(), tasks.end())
InsertOutputs(out, tasks) == out \o tasks

\* NoAccepter returning an empty vector to run instead of throwing
NoAccepterEmpty ==
    /\ pc' = "loop"
    /\ UNCHANGED <<error, result, output_messages, raised>>

\* what handle_tasks does when its loop ends without a co_return
NoAccepter == Unwind("UnhandledOutputs")

\* the results a handler can produce for the task of the current context
HandlerResults == {Nullopt} \cup {Some(NewMessages(context.task, n)) : n \in 0..MaxVec}

\* LLMEngine::handle_tasks: one iteration of the for loop (the runner's try_handle
\* and the test of its result), or the throw after the loop; on acceptance control
\* returns to run, which inserts the vector into output_messages; effs is what a
\* handler may do to the message
HandleTasksWith(effs) ==
    /\ pc = "handle"
    /\ IF handlerIdx > Len(m_task_handlers)
       THEN /\ NoAccepter
            /\ UNCHANGED <<msgs, nodeAdds, consultLog, chosen, handlerIdx>>
       ELSE \E eff \in effs, throws \in BOOLEAN, new_tasks \in HandlerResults :
            LET runner == RunnerAt(handlerIdx)
                k      == Len(consultLog)
                entry  == [runner |-> runner,
                           res |-> IF throws THEN "throw"
                                   ELSE IF new_tasks.has_value THEN "some" ELSE "none",
                           n |-> Len(new_tasks.value)]
            IN  /\ EffectAllowed(eff)
                /\ throws => new_tasks = Nullopt
                /\ msgs' = [msgs EXCEPT
                              ![input_message] = ApplyEffect(@, eff, Task(FreshId, TRUE))]
                /\ nodeAdds' = IF eff = "add" THEN nodeAdds + 1 ELSE nodeAdds
                /\ consultLog' = [consultLog EXCEPT ![k] = Append(@, entry)]
                /\ IF throws
                   THEN Unwind("HandlerError") /\ UNCHANGED <<chosen, handlerIdx>>
                   ELSE IF Accepted(new_tasks)
                   THEN /\ output_messages' = InsertOutputs(output_messages, new_tasks.value)
                        /\ chosen' = Append(chosen, new_tasks.value)
                        /\ pc' = "loop"
                        /\ UNCHANGED <<handlerIdx, result, error, raised>>
                   ELSE /\ handlerIdx' = handlerIdx + 1
                        /\ UNCHANGED <<pc, output_messages, chosen, result, error, raised>>
    /\ UNCHANGED <<m_task_handlers, input_message, context>>
    /\ UNCHANGED <<entry_msgs, drained, execCalls, handleCalls, ctxBuilt, nodeRemoves,
                   seenValues>>
    /\ UNCHANGED cmHist
    /\ UNCHANGED <<ctxVars, runVars>>

HandleTasks == HandleTasksWith({"nothing", "add"})

(***************************************************************************)
(* LLMContext: output publication                                          *)
(***************************************************************************)

OutKeys == {"x", "y"}
OutVals == {"u", "v"}

\* the JSON objects a node can hold as its outputs
OutObjects == UNION {[K -> OutVals] : K \in SUBSET OutKeys}

\* the lists a node can give to set_output_names
OutNameLists == {<<>>, <<"x">>, <<"y">>, <<"x", "y">>, <<"y", "x">>}

\* the name of the context: the empty name of a root, or the name of a pushed child
CtxNames == {"", "a"}

Range(f) == {f[i] : i \in DOMAIN f}

\* a context as constructed: no outputs, no output names, outputs_ready pending
NewContext(name) == [name |-> name, output_names |-> <<>>, outputs |-> EmptyFcn,
                     ready |-> FALSE]

NoCtxCall == [op |-> "none", err |-> "none"]

\* the context variables when no context is under study
CtxIdle ==
    /\ ctx = NewContext("")
    /\ state_values = EmptyFcn
    /\ ctxRet = NoCtxCall

\* CompleteRejected letting a second outputs_complete publish again
CompleteRejectedNever(c) == FALSE

\* outputs_complete on a context whose outputs_ready is already ready is rejected
CompleteRejected(c) == c.ready

\* OutputRejected letting set_output write to a published context
OutputRejectedNever(c) == FALSE

\* set_output on a published context is rejected
OutputRejected(c) == c.ready

\* Published ignoring output_names
PublishedUnfiltered(outputs, output_names) == outputs

\* what outputs_complete publishes: outputs filtered by output_names when that list
\* is not empty, all of outputs otherwise
Published(outputs, output_names) ==
    IF output_names = <<>> THEN outputs
    ELSE [k \in (DOMAIN outputs) \cap Range(output_names) |-> outputs[k]]

\* json[key] = value on an object
Assign(obj, key, value) ==
    [k \in (DOMAIN obj) \cup {key} |-> IF k = key THEN value ELSE obj[k]]

\* LLMContext::set_output(nlohmann::json outputs)
SetOutput(obj) ==
    /\ IF OutputRejected(ctx)
       THEN /\ ctxRet' = [op |-> "set_output", err |-> "OutputAfterComplete"]
            /\ UNCHANGED ctx
       ELSE /\ ctx' = [ctx EXCEPT !.outputs = obj]
            /\ ctxRet' = [op |-> "set_output", err |-> "none"]
    /\ UNCHANGED state_values
    /\ UNCHANGED <<cmVars, engVars, engHist, runVars>>

\* LLMContext::set_output(const std::string& output_name, nlohmann::json output)
SetOutputKey(key, value) ==
    /\ IF OutputRejected(ctx)
       THEN /\ ctxRet' = [op |-> "set_output_key", err |-> "OutputAfterComplete"]
            /\ UNCHANGED ctx
       ELSE /\ ctx' = [ctx EXCEPT !.outputs = Assign(@, key, value)]
            /\ ctxRet' = [op |-> "set_output_key", err |-> "none"]
    /\ UNCHANGED state_values
    /\ UNCHANGED <<cmVars, engVars, engHist, runVars>>

\* LLMContext::set_output_names
SetOutputNames(names) ==
    /\ ctx' = [ctx EXCEPT !.output_names = names]
    /\ ctxRet' = [op |-> "set_output_names", err |-> "none"]
    /\ UNCHANGED state_values
    /\ UNCHANGED <<cmVars, engVars, engHist, runVars>>

\* LLMContext::outputs_complete
OutputsComplete ==
    /\ IF CompleteRejected(ctx)
       THEN /\ ctxRet' = [op |-> "outputs_complete", err |-> "DoubleComplete"]
            /\ UNCHANGED <<ctx, state_values>>
       ELSE /\ state_values' = Assign(state_values, ctx.name,
                                      Published(ctx.outputs, ctx.output_names))
            /\ ctx' = [ctx EXCEPT !.ready = TRUE]
            /\ ctxRet' = [op |-> "outputs_complete", err |-> "none"]
    /\ UNCHANGED <<cmVars, engVars, engHist, runVars>>

(***************************************************************************)
(* LLMTaskHandlerRunner::try_handle                                        *)
(***************************************************************************)

\* the names of the handlers bound to runners
HandlerNames == {"h1", "h2"}

\* what the awaited handler can produce: a result, or an exception
HandlerOutcomes ==
    {[throws |-> FALSE, res |-> r] :
        r \in {Nullopt} \cup {Some(NewMessages(Task(1, TRUE), n)) : n \in 0..MaxVec}}
    \cup {[throws |-> TRUE, res |-> Nullopt]}

\* no try_handle call made yet: the context has no live child
NewRunner == [pc |-> "idle", handler |-> "", children |-> <<>>, pushes |-> 0, pops |-> 0,
              log |-> <<>>]

RunnerIdle == runnerState = NewRunner

\* context->push(name, inputs): a child context is registered with the context
Push(children, name) == Append(children, name)

\* PopOnExit leaving the child in place when the handler fails
PopOnSuccess(children, outcome) ==
    IF outcome.throws THEN children ELSE SubSeq(children, 1, Len(children) - 1)

\* child->pop() on the way out of try_handle, whatever the handler did
PopOnExit(children, outcome) == SubSeq(children, 1, Len(children) - 1)

\* what try_handle hands to its caller: the handler's result, or its exception
Returned(outcome) == IF outcome.throws THEN [throws |-> TRUE, res |-> Nullopt]
                     ELSE [throws |-> FALSE, res |-> outcome.res]

\* try_handle up to its co_await: the child context is pushed and the handler started
TryHandleBegin(h) ==
    /\ runnerState.pc = "idle"
    /\ Len(runnerState.log) < MaxTry
    /\ runnerState' = [runnerState EXCEPT !.pc = "awaiting", !.handler = h,
                                          !.children = Push(@, h),
                                          !.pushes = @ + 1]
    /\ UNCHANGED <<cmVars, engVars, engHist, ctxVars>>

\* try_handle from the completion of the handler to its own completion
TryHandleEnd(outcome) ==
    /\ runnerState.pc = "awaiting"
    /\ LET after == PopOnExit(runnerState.children, outcome)
       IN  runnerState' =
               [runnerState EXCEPT
                   !.pc = "idle",
                   !.children = after,
                   !.pops = @ + (Len(runnerState.children) - Len(after)),
                   !.log = Append(@, [handler |-> runnerState.handler,
                                      outcome |-> outcome,
                                      ret |-> Returned(outcome)])]
    /\ UNCHANGED <<cmVars, engVars, engHist, ctxVars>>

EmptyLogs == [m \in MsgIds |-> [t \in TaskTypes |-> <<>>]]
NoCall    == [op |-> "none", err |-> "none"]

\* the llm_engine queues the input message can hold when run is called
EntryQueues ==
    UNION {[1..n -> {Task(0, TRUE), Task(0, FALSE)}] : n \in 0..MaxTasks}

Renumber(q) == [i \in 1..Len(q) |-> Task(i, q[i].wf)]

\* a message with the queue q of llm_engine tasks; keyed says whether the key
\* "llm_engine" is present in m_tasks when q is empty
EntryMessage(q, keyed) ==
    [NewMessage EXCEPT !.tasks = IF q = <<>> /\ ~keyed THEN EmptyFcn
                                 ELSE [t \in {LLM_ENGINE} |-> Renumber(q)]]

Init ==
    /\ \E q \in EntryQueues, keyed \in BOOLEAN :
          /\ q # <<>> => keyed
          /\ msgs = [m \in MsgIds |-> IF m = 1 THEN EntryMessage(q, keyed) ELSE NoMessage]
    /\ inherited = EmptyLogs /\ addLog = EmptyLogs /\ remLog = EmptyLogs /\ ret = NoCall
    /\ m_task_handlers = <<>>
    /\ input_message \in {NULLPTR, 1}
    /\ pc = "idle"
    /\ output_messages = <<>>
    /\ context = NoContext
    /\ handlerIdx = 1
    /\ result = Nullopt
    /\ error = "none"
    /\ entry_msgs = msgs
    /\ drained = <<>> /\ consultLog = <<>> /\ chosen = <<>>
    /\ execCalls = 0 /\ handleCalls = 0 /\ ctxBuilt = 0 /\ raised = <<>> /\ nodeAdds = 0
    /\ nodeRemoves = 0 /\ seenValues = {}
    /\ CtxIdle
    /\ RunnerIdle

Next ==
    \/ AddTaskHandler
    \/ RunEntry
    \/ RunLoop
    \/ Execute
    \/ HandleTasks

Spec == Init /\ [][Next]_vars


(***************************************************************************)
(* Properties of LLMEngine::run (specification Spec)                       *)
(***************************************************************************)

RECURSIVE Flatten(_)
Flatten(vs) == IF vs = <<>> THEN <<>> ELSE vs[1] \o Flatten(Tail(vs))

RECURSIVE SumLen(_)
SumLen(vs) == IF vs = <<>> THEN 0 ELSE Len(vs[1]) + SumLen(Tail(vs))

\* the position in drain order of the task with the given id
DrainPos(id) == CHOOSE k \in 1..Len(drained) : drained[k].id = id

\* run is no longer processing the k-th drained task
Finished(k) == k < Len(drained) \/ pc \in {"loop", "done", "failed"}

\* handle_tasks has returned or thrown for the k-th drained task
HandleTasksEnded(k) == k <= handleCalls /\ (k < Len(drained) \/ pc # "handle")

NumDefined(L) == Cardinality({i \in 1..Len(L) : L[i].res = "some"})

\* the runners were consulted in registration order, each at most once
InRegistrationOrder(L) ==
    /\ Len(L) <= Len(m_task_handlers)
    /\ \A i \in 1..Len(L) : L[i].runner = i

\* a defined result is the last result of the chain
ShortCircuits(L) == \A i \in 1..Len(L) : L[i].res = "some" => i = Len(L)

\* C1 as stated: for every task drained by run the runners are consulted in
\* registration order, the runners before the chosen one returned an empty option,
\* exactly one consulted runner returned a defined result and none is consulted
\* after it.
C1_ExactlyOneForEveryDrained ==
    \A k \in 1..Len(consultLog) :
        Finished(k) =>
            /\ InRegistrationOrder(consultLog[k])
            /\ ShortCircuits(consultLog[k])
            /\ NumDefined(consultLog[k]) = 1

\* C1 amended: for every drained task the runners are consulted in registration
\* order, each at most once, and a defined result ends the chain (every runner
\* consulted before it returned an empty option or nothing at all, no runner after
\* it is consulted); exactly one consulted runner returns a defined result for
\* every drained task whose processing did not fail, and none does for the task
\* whose processing failed.
C1_HandlerChain ==
    \A k \in 1..Len(consultLog) :
        LET L == consultLog[k]
        IN  /\ InRegistrationOrder(L)
            /\ ShortCircuits(L)
            /\ \A i \in 1..(Len(L) - 1) : L[i].res = "none"
            /\ NumDefined(L) <= 1
            /\ (k < Len(drained) \/ pc \in {"loop", "done"}) => NumDefined(L) = 1
            /\ (k = Len(drained) /\ pc = "failed") => NumDefined(L) = 0

C1_Witness ==
    /\ pc = "done"
    /\ Len(m_task_handlers) = 2
    /\ Len(consultLog) >= 2
    /\ Len(consultLog[1]) = 2
    /\ consultLog[1][1].res = "none" /\ consultLog[1][2].res = "some"
    /\ Len(consultLog[2]) = 1 /\ consultLog[2][1].res = "some"

\* C2: when run succeeds, the returned vector is the concatenation in drain order
\* of the vectors of the accepting handlers: its length is the sum of their
\* lengths and the messages of an earlier drained task precede those of a later one.
C2_Concatenation ==
    pc = "done" =>
        /\ result.has_value
        /\ Len(chosen) = Len(drained)
        /\ result.value = Flatten(chosen)
        /\ Len(result.value) = SumLen(chosen)
        /\ \A k \in 1..Len(chosen) : \A i \in 1..Len(chosen[k]) :
               chosen[k][i].task = drained[k].id
        /\ \A i, j \in 1..Len(result.value) :
               i < j => DrainPos(result.value[i].task) <= DrainPos(result.value[j].task)

C2_Witness ==
    /\ pc = "done"
    /\ Len(chosen) >= 2
    /\ Len(chosen[1]) = 2
    /\ Len(chosen[2]) >= 1

\* C3: after run returns successfully the message has no llm_engine task, whatever
\* was queued at entry and whatever nodes and handlers did to the message.
C3_NoEngineTaskLeft ==
    pc = "done" => ~HasTask(msgs[input_message], LLM_ENGINE)

C3_Witness ==
    /\ pc = "done"
    /\ nodeAdds >= 1
    /\ Len(drained) >= 3

\* every registered handler was consulted for the k-th drained task and returned an
\* empty option
AllDeclined(k) ==
    /\ Len(consultLog[k]) = Len(m_task_handlers)
    /\ \A i \in 1..Len(consultLog[k]) : consultLog[k][i].res = "none"

\* C4: if every registered handler returns an empty option for a drained task (also
\* when no handler is registered), run fails with UnhandledOutputs and returns no
\* vector.
C4_UnhandledOutputs ==
    \A k \in 1..Len(consultLog) :
        (HandleTasksEnded(k) /\ AllDeclined(k)) =>
            /\ k = Len(drained)
            /\ pc = "failed"
            /\ error = "UnhandledOutputs"
            /\ ~result.has_value

C4_Witness ==
    /\ pc = "failed"
    /\ Len(m_task_handlers) = 2
    /\ Len(drained) = 2
    /\ HandleTasksEnded(2)
    /\ AllDeclined(2)

\* C5: a handler returning a defined but empty vector has accepted the task: the
\* handler iteration ends there, the task is handled with zero messages and run
\* does not fail with UnhandledOutputs for it; a runner that returned an empty
\* option never counts as the accepter.
C5_EmptyVectorAccepts ==
    \A k \in 1..Len(consultLog) :
        LET L == consultLog[k]
        IN  /\ \A i \in 1..Len(L) :
                  (L[i].res = "some") <=>
                      (i = Len(L) /\ k <= Len(chosen) /\ Len(chosen[k]) = L[i].n)
            /\ \A i \in 1..Len(L) :
                  (L[i].res = "some" /\ L[i].n = 0) =>
                      /\ chosen[k] = <<>>
                      /\ ~(k = Len(drained) /\ error = "UnhandledOutputs")
                      /\ (pc = "done" =>
                            Len(result.value) =
                                SumLen([j \in 1..Len(chosen) |->
                                           IF j = k THEN <<>> ELSE chosen[j]]))

C5_Witness ==
    /\ pc = "done"
    /\ Len(consultLog) = 1
    /\ Len(consultLog[1]) = 2
    /\ consultLog[1][1].res = "none"
    /\ consultLog[1][2].res = "some" /\ consultLog[1][2].n = 0
    /\ result = Some(<<>>)

\* C6: run fails with NullMessage on a null message and with NoEngineTask on a
\* message without a queued llm_engine task at entry; then no task was removed from
\* any message, no context was built, execute was not called and no handler was
\* consulted.
C6_EntryChecks ==
    /\ (pc # "idle" /\ input_message = NULLPTR) =>
           (pc = "failed" /\ error = "NullMessage")
    /\ (pc # "idle" /\ input_message # NULLPTR
            /\ ~HasTask(entry_msgs[input_message], LLM_ENGINE)) =>
           (pc = "failed" /\ error = "NoEngineTask")
    /\ (pc # "idle" /\ (input_message = NULLPTR
            \/ ~HasTask(entry_msgs[input_message], LLM_ENGINE))) =>
           /\ msgs = entry_msgs
           /\ drained = <<>>
           /\ ctxBuilt = 0
           /\ execCalls = 0
           /\ handleCalls = 0
           /\ consultLog = <<>>
           /\ ~result.has_value

C6_Witness ==
    /\ pc = "failed"
    /\ error = "NoEngineTask"
    /\ input_message = 1
    /\ LLM_ENGINE \in DOMAIN msgs[1].tasks
    /\ Len(m_task_handlers) >= 1

\* C7: when the processing of a drained task fails, run completes with that first
\* error, the failing task is the last one it drained, and no message accumulated
\* from the tasks handled before is delivered.
C7_FirstErrorDiscardsOutputs ==
    raised # <<>> =>
        /\ pc = "failed"
        /\ Len(raised) = 1
        /\ error = raised[1]
        /\ ~result.has_value
        /\ output_messages = <<>>
        /\ error \in {"TaskExtraction", "ExecuteError", "HandlerError", "UnhandledOutputs"} =>
              /\ Len(chosen) = Len(drained) - 1
              /\ ctxBuilt <= Len(drained)
              /\ execCalls <= Len(drained)
              /\ handleCalls <= Len(drained)
              /\ Len(consultLog) = Len(drained)

C7_Witness ==
    /\ pc = "failed"
    /\ error = "ExecuteError"
    /\ Len(chosen) >= 1
    /\ Len(chosen[1]) >= 1
    /\ HasTask(msgs[input_message], LLM_ENGINE)


\* where run is with the task it drained last, and that every earlier drained task
\* went through execute and the handlers before
C14_Sequential ==
    LET k == Len(drained)
    IN  /\ Len(consultLog) = k
        /\ pc = "execute" =>
               /\ k >= 1 /\ execCalls = k - 1 /\ handleCalls = k - 1
               /\ Len(chosen) = k - 1 /\ consultLog[k] = <<>>
        /\ pc = "handle" =>
               /\ k >= 1 /\ execCalls = k /\ handleCalls = k /\ Len(chosen) = k - 1
        /\ pc \in {"loop", "done"} =>
               /\ execCalls = k /\ handleCalls = k /\ Len(chosen) = k
        /\ \A j \in 1..(k - 1) : NumDefined(consultLog[j]) = 1

\* the order of the events of one step: remove_task only when every drained task has
\* been accepted by a handler, execute only for the task just removed and before any
\* handler is consulted for it, a handler only for the task whose execute completed
C14_Step ==
    /\ drained' # drained =>
           /\ Len(chosen) = Len(drained) /\ execCalls = Len(drained)
           /\ Len(drained') = Len(drained) + 1
           /\ execCalls' = execCalls /\ consultLog' = Append(consultLog, <<>>)
    /\ execCalls' # execCalls =>
           /\ execCalls' = Len(drained) /\ execCalls = Len(drained) - 1
           /\ consultLog' = consultLog /\ consultLog[Len(drained)] = <<>>
           /\ drained' = drained
    /\ consultLog' # consultLog /\ drained' = drained =>
           /\ execCalls = Len(drained) /\ execCalls' = execCalls
           /\ Len(chosen) = Len(drained) - 1
           /\ \A j \in 1..(Len(drained) - 1) : consultLog'[j] = consultLog[j]

ExecuteNoAdd     == ExecuteWith({"nothing", "remove"})
HandleTasksNoAdd == HandleTasksWith({"nothing"})

NextNoAdd ==
    \/ AddTaskHandler
    \/ RunEntry
    \/ RunLoop
    \/ ExecuteNoAdd
    \/ HandleTasksNoAdd

\* the coroutine is resumed whenever it can take a step, and every execute and every
\* handler call it awaits terminates
SpecLive ==
    /\ Init
    /\ [][NextNoAdd]_vars
    /\ WF_vars(RunLoop)
    /\ WF_vars(ExecuteNoAdd)
    /\ WF_vars(HandleTasksNoAdd)

\* the number of llm_engine tasks queued on the input message when run was called
EntryCount == Len(QueueAt(entry_msgs[1], LLM_ENGINE))

\* no node has removed an llm_engine task so far
Untouched == nodeRemoves = 0

Running   == pc \in {"loop", "execute", "handle"}
Completed == pc \in {"done", "failed"}

\* C15 as stated: when no node or handler adds an llm_engine task, a successful run
\* on a message with n >= 1 queued llm_engine tasks has made exactly n remove_task
\* calls and n execute calls.
C15_ExactlyNWithoutAdds ==
    pc = "done" =>
        /\ Len(drained) = EntryCount
        /\ execCalls = EntryCount

\* C15 amended: when every execute and handler call terminates and no node or
\* handler adds or removes an llm_engine task, run on a message with n >= 1 queued
\* llm_engine tasks eventually completes, and on success it has made exactly n
\* remove_task("llm_engine") calls and n execute calls.
C15_Terminates ==
    /\ Running ~> Completed
    /\ [](nodeAdds = 0)
    /\ []((pc = "done" /\ Untouched) =>
             /\ EntryCount >= 1
             /\ Len(drained) = EntryCount
             /\ execCalls = EntryCount
             /\ handleCalls = EntryCount)

C15_Witness ==
    /\ pc = "done"
    /\ Untouched
    /\ EntryCount = 3
    /\ execCalls = 3


\* C16: each drained task is executed against its own freshly built root context
\* bound to that task and to the input message: when the task's execute starts the
\* context has no outputs and an empty state.values, whatever was published while
\* an earlier task of the run was processed, and the handlers of the task are given
\* that same context.
C16_FreshRootContext ==
    /\ pc = "execute" =>
           /\ context.live
           /\ context.task = drained[Len(drained)]
           /\ context.message = input_message
           /\ context.outputs = {}
           /\ context.values = {}
           /\ ctxBuilt = Len(drained)
    /\ pc = "handle" =>
           /\ context.task = drained[Len(drained)]
           /\ context.message = input_message
           /\ context.outputs = {}
           /\ ctxBuilt = Len(drained)

C16_Witness ==
    /\ pc = "execute"
    /\ Len(drained) = 2
    /\ seenValues = {"n"}
    /\ context.values = {}


\* the errors run can fail with while it processes a drained task
ProcessingErrors == {"TaskExtraction", "ExecuteError", "HandlerError", "UnhandledOutputs"}

\* the llm_engine tasks the input message was given, in order: those queued at entry
\* (numbered 1..EntryCount) and then those added during the run; the k drained tasks
\* are the first k of them and the queue holds the others, in the same order
C18_FirstKLost ==
    LET k     == Len(drained)
        q     == QueueAt(msgs[input_message], LLM_ENGINE)
        given == QueueAt(entry_msgs[input_message], LLM_ENGINE)
    IN  /\ k >= 1
        /\ \A i \in 1..k : drained[i].id = i /\ (i <= Len(given) => drained[i] = given[i])
        /\ Len(q) = Len(given) + nodeAdds - k
        /\ \A j \in 1..Len(q) :
               q[j].id = k + j /\ (k + j <= Len(given) => q[j] = given[k + j])

CfgTypes == {NoType, "inference", "training", LLM_ENGINE}

\* the types of the entries of a config's "tasks" array
CfgTaskTypes == UNION {[1..n -> TaskTypes] : n \in 0..MaxCfgTasks}

QueueOf(m, t) == IF t \in DOMAIN m.tasks THEN m.tasks[t] ELSE <<>>

\* the number of successful add_task calls on message m so far
AddsOn(m) ==
    Len(addLog[m]["inference"]) + Len(addLog[m]["training"]) + Len(addLog[m][LLM_ENGINE])

\* the number of successful add_task calls so far
TotalAdds == AddsOn(1) + AddsOn(2)

\* the number of tasks of type t message m has been given so far
Sent(m, t) == Len(inherited[m][t]) + Len(addLog[m][t])

\* the payload of the next task of type t given to message m: the tasks of a queue
\* are numbered in the order they are given
NextTask(m, t) == Task(Sent(m, t) + 1, TRUE)

\* the configs a client can pass to message m
Configs(m) ==
    {[type |-> ty,
      tasks |-> [i \in 1..Len(ts) |->
                   [type |-> ts[i],
                    properties |-> Task(Sent(m, ts[i])
                                          + Cardinality({j \in 1..i : ts[j] = ts[i]}), TRUE)]]] :
        ty \in CfgTypes, ts \in CfgTaskTypes}

\* where the next object is constructed
FreeSlot(m) == ~msgs[m].live /\ \A j \in MsgIds : j < m => msgs[j].live

\* the tasks of type t among the entries of a config that were added
AddedOfType(added, t) ==
    LET sel == SelectSeq(added, LAMBDA e : e.type = t)
    IN  [i \in 1..Len(sel) |-> sel[i].properties]

\* the outcome of a call: whether it returned or threw, and what it threw
Call(op, r) == [op |-> op, err |-> r.err]

Ok == [ok |-> TRUE, err |-> "none"]

\* ControlMessage::ControlMessage()
Construct(m) ==
    /\ FreeSlot(m)
    /\ msgs' = [msgs EXCEPT ![m] = NewMessage]
    /\ ret' = Call("construct", Ok)
    /\ UNCHANGED <<inherited, addLog, remLog>>
    /\ UNCHANGED <<engVars, engHist, ctxVars, runVars>>

\* ControlMessage::ControlMessage(const json& _config): when config throws, no
\* object comes to exist
ConstructFromConfig(m, cfg) ==
    /\ FreeSlot(m)
    /\ TotalAdds + Len(cfg.tasks) <= MaxCalls
    /\ LET r == ConfigRes(NewMessage, cfg)
       IN  /\ msgs' = IF r.ok THEN [msgs EXCEPT ![m] = r.msg] ELSE msgs
           /\ addLog' = IF r.ok
                        THEN [addLog EXCEPT ![m] = [t \in TaskTypes |-> AddedOfType(r.added, t)]]
                        ELSE addLog
           /\ ret' = Call("construct_config", r)
    /\ UNCHANGED <<inherited, remLog>>
    /\ UNCHANGED <<engVars, engHist, ctxVars, runVars>>

\* ControlMessage::ControlMessage(const ControlMessage& other)
CopyConstruct(m, other) ==
    /\ FreeSlot(m)
    /\ msgs[other].live
    /\ msgs' = [msgs EXCEPT ![m] = CopyOf(msgs[other])]
    /\ inherited' = [inherited EXCEPT ![m] = [t \in TaskTypes |-> QueueOf(msgs[other], t)]]
    /\ ret' = Call("copy", Ok)
    /\ UNCHANGED <<addLog, remLog>>
    /\ UNCHANGED <<engVars, engHist, ctxVars, runVars>>

\* a client calls add_task
AddTask(m, type, task) ==
    /\ msgs[m].live
    /\ TotalAdds < MaxCalls
    /\ LET r == AddTaskRes(msgs[m], type, task)
       IN  /\ msgs' = [msgs EXCEPT ![m] = r.msg]
           /\ addLog' = IF r.ok THEN [addLog EXCEPT ![m][type] = Append(@, task)] ELSE addLog
           /\ ret' = Call("add_task", r)
    /\ UNCHANGED <<inherited, remLog>>
    /\ UNCHANGED <<engVars, engHist, ctxVars, runVars>>

\* a client calls remove_task
RemoveTask(m, type) ==
    /\ msgs[m].live
    /\ LET r == RemoveTaskRes(msgs[m], type)
       IN  /\ msgs' = [msgs EXCEPT ![m] = r.msg]
           /\ remLog' = IF r.ok THEN [remLog EXCEPT ![m][type] = Append(@, r.task)] ELSE remLog
           /\ ret' = Call("remove_task", r)
    /\ UNCHANGED <<inherited, addLog>>
    /\ UNCHANGED <<engVars, engHist, ctxVars, runVars>>

\* a client calls config(json): the tasks added before a failing add_task stay
Config(m, cfg) ==
    /\ msgs[m].live
    /\ TotalAdds + Len(cfg.tasks) <= MaxCalls
    /\ LET r == ConfigRes(msgs[m], cfg)
       IN  /\ msgs' = [msgs EXCEPT ![m] = r.msg]
           /\ addLog' = [addLog EXCEPT ![m] =
                            [t \in TaskTypes |-> @[t] \o AddedOfType(r.added, t)]]
           /\ ret' = Call("config", r)
    /\ UNCHANGED <<inherited, remLog>>
    /\ UNCHANGED <<engVars, engHist, ctxVars, runVars>>

InitCM ==
    /\ msgs = [m \in MsgIds |-> NoMessage]
    /\ inherited = EmptyLogs /\ addLog = EmptyLogs /\ remLog = EmptyLogs /\ ret = NoCall
    /\ m_task_handlers = <<>>
    /\ input_message = NULLPTR
    /\ pc = "idle"
    /\ output_messages = <<>>
    /\ context = NoContext
    /\ handlerIdx = 1
    /\ result = Nullopt
    /\ error = "none"
    /\ entry_msgs = msgs
    /\ drained = <<>> /\ consultLog = <<>> /\ chosen = <<>>
    /\ execCalls = 0 /\ handleCalls = 0 /\ ctxBuilt = 0 /\ raised = <<>> /\ nodeAdds = 0
    /\ nodeRemoves = 0 /\ seenValues = {}
    /\ CtxIdle
    /\ RunnerIdle

NextCM ==
    \/ \E m \in MsgIds : Construct(m)
    \/ \E m \in MsgIds : \E cfg \in Configs(m) : ConstructFromConfig(m, cfg)
    \/ \E m, other \in MsgIds : CopyConstruct(m, other)
    \/ \E m \in MsgIds, type \in TaskTypes : AddTask(m, type, NextTask(m, type))
    \/ \E m \in MsgIds, type \in TaskTypes : RemoveTask(m, type)
    \/ \E m \in MsgIds : \E cfg \in Configs(m) : Config(m, cfg)

SpecCM == InitCM /\ [][NextCM]_vars


(***************************************************************************)
(* Properties of ControlMessage (specification SpecCM)                     *)
(***************************************************************************)

\* type t belongs to the category the discriminator cm excludes
OtherCategory(cm, t) == cm \in {INFERENCE, TRAINING} /\ TaskTypeOf(t) \notin {NONE, cm}

\* a step of a message whose discriminator is INFERENCE or TRAINING
C8_Step(m) ==
    LET cm == msgs[m].cm_type
    IN  /\ msgs'[m].cm_type = cm
        /\ \A t \in TaskTypes :
              OtherCategory(cm, t) =>
                  /\ Len(QueueOf(msgs'[m], t)) <= Len(QueueOf(msgs[m], t))
                  /\ (ret'.op = "add_task" /\ AddTask(m, t, NextTask(m, t))) =>
                         /\ ret'.err = "MixedTaskCategories"
                         /\ msgs' = msgs
                         /\ addLog' = addLog

\* config() with a task of the other category among its "tasks" fails on a message
\* whose discriminator is INFERENCE or TRAINING, and queues no such task
C8_ConfigRejected ==
    \A m \in MsgIds :
        (msgs[m].live /\ msgs[m].cm_type \in {INFERENCE, TRAINING}) =>
            \A cfg \in Configs(m) :
                (\E i \in 1..Len(cfg.tasks) :
                     OtherCategory(msgs[m].cm_type, cfg.tasks[i].type)) =>
                    LET r == ConfigRes(msgs[m], cfg)
                    IN  /\ ~r.ok
                        /\ r.err = "MixedTaskCategories"
                        /\ r.msg.cm_type = msgs[m].cm_type
                        /\ \A t \in TaskTypes :
                               OtherCategory(msgs[m].cm_type, t) =>
                                   QueueOf(r.msg, t) = QueueOf(msgs[m], t)

\* C8: once a message's discriminator is INFERENCE or TRAINING it keeps that value
\* under every later call, and every later add_task of the other category (called
\* by a client or by config) fails with MixedTaskCategories, leaving the task
\* queues and the discriminator unchanged, also after the tasks of the first
\* category have been removed.
C8_MixedCategoriesRejected ==
    /\ []C8_ConfigRejected
    /\ [][\A m \in MsgIds :
             (msgs[m].live /\ msgs[m].cm_type \in {INFERENCE, TRAINING}) => C8_Step(m)]_vars

C8_Witness ==
    /\ msgs[1].live /\ ~msgs[2].live
    /\ msgs[1].cm_type = INFERENCE
    /\ Len(addLog[1]["inference"]) >= 1
    /\ remLog[1]["inference"] = addLog[1]["inference"]
    /\ ~HasTask(msgs[1], "inference")
    /\ ~HasTask(msgs[1], "training")
    /\ ret = [op |-> "add_task", err |-> "MixedTaskCategories"]

\* in every state the tasks a queue was given, in order, are the tasks removed from
\* it, in order, followed by the tasks still queued
C9_Fifo ==
    \A m \in MsgIds : \A t \in TaskTypes :
        /\ inherited[m][t] \o addLog[m][t] = remLog[m][t] \o QueueOf(msgs[m], t)
        /\ inherited[m][t] = <<>> =>
              /\ Len(remLog[m][t]) <= Len(addLog[m][t])
              /\ \A k \in 1..Len(remLog[m][t]) : remLog[m][t][k] = addLog[m][t][k]

\* a remove_task call: it fails and changes nothing when the queue is absent or
\* empty; otherwise it returns the head of the queue, leaves its tail and touches
\* no other queue
C9_Step(m, t) ==
    LET q == QueueOf(msgs[m], t)
    IN  IF q = <<>>
        THEN /\ ret'.err # "none"
             /\ msgs' = msgs
             /\ remLog' = remLog
        ELSE /\ ret'.err = "none"
             /\ remLog'[m][t] = Append(remLog[m][t], Head(q))
             /\ QueueOf(msgs'[m], t) = Tail(q)
             /\ msgs'[m].cm_type = msgs[m].cm_type
             /\ DOMAIN msgs'[m].tasks = DOMAIN msgs[m].tasks
             /\ \A m2 \in MsgIds : \A t2 \in TaskTypes :
                   <<m2, t2>> # <<m, t>> =>
                       /\ QueueOf(msgs'[m2], t2) = QueueOf(msgs[m2], t2)
                       /\ remLog'[m2][t2] = remLog[m2][t2]

\* C9: remove_task is FIFO within a type: over any interleaving of add_task and
\* remove_task calls the k-th successful remove_task(type) returns the task of the
\* k-th successful add_task(type) and leaves the other types untouched; it fails,
\* changing nothing, when no task of the type is queued.
C9_RemoveTaskFifo ==
    /\ []C9_Fifo
    /\ [][\A m \in MsgIds : \A t \in TaskTypes : RemoveTask(m, t) => C9_Step(m, t)]_vars

C9_Witness ==
    /\ inherited[1][LLM_ENGINE] = <<>>
    /\ Len(addLog[1][LLM_ENGINE]) = 2
    /\ remLog[1][LLM_ENGINE] = addLog[1][LLM_ENGINE]
    /\ addLog[1][LLM_ENGINE][1] # addLog[1][LLM_ENGINE][2]
    /\ ret = [op |-> "remove_task", err |-> "NoTasksOfType"]


\* C17: no control message holds a queued "inference" task and a queued "training"
\* task at the same time, however it was constructed (from a config, as a copy) and
\* whatever config, add_task and remove_task calls it received.
C17_NeverBothCategories ==
    \A m \in MsgIds :
        msgs[m].live => ~(HasTask(msgs[m], "inference") /\ HasTask(msgs[m], "training"))


\* an add_task call with a type that is not a key of s_task_type_map
C19_Step(m, t) ==
    /\ ret' = [op |-> "add_task", err |-> "none"]
    /\ QueueOf(msgs'[m], t) = Append(QueueOf(msgs[m], t), NextTask(m, t))
    /\ msgs'[m].cm_type = msgs[m].cm_type
    /\ \A t2 \in TaskTypes \ {t} :
           /\ QueueOf(msgs'[m], t2) = QueueOf(msgs[m], t2)
           /\ (t2 \in DOMAIN msgs'[m].tasks) = (t2 \in DOMAIN msgs[m].tasks)
    /\ \A m2 \in MsgIds \ {m} : msgs'[m2] = msgs[m2]

\* C19: add_task with a type outside {"inference", "training"} (such as
\* "llm_engine") never fails, appends the task to the queue of that type, and leaves
\* the discriminator and the queues of all other types unchanged, whatever the
\* discriminator's value.
C19_UncategorisedAddTask ==
    [][\A m \in MsgIds : \A t \in TaskTypes \ {"inference", "training"} :
          AddTask(m, t, NextTask(m, t)) => C19_Step(m, t)]_vars

C19_Witness ==
    /\ msgs[1].live /\ ~msgs[2].live
    /\ msgs[1].cm_type = TRAINING
    /\ Len(addLog[1][LLM_ENGINE]) = 2
    /\ Len(QueueOf(msgs[1], LLM_ENGINE)) = 2
    /\ ret = [op |-> "add_task", err |-> "none"]


\* C20 as stated: for every message and type t, has_task(t) is true exactly when the
\* successful add_task(t) calls on the message outnumber its successful
\* remove_task(t) calls.
C20_HasTaskCountsAdds ==
    \A m \in MsgIds : \A t \in TaskTypes :
        msgs[m].live => (HasTask(msgs[m], t) <=> Len(addLog[m][t]) > Len(remLog[m][t]))

\* has_task(t) against the tasks the message was given and those taken from it
C20_Balance ==
    \A m \in MsgIds : \A t \in TaskTypes :
        msgs[m].live =>
            (HasTask(msgs[m], t) <=>
                Len(inherited[m][t]) + Len(addLog[m][t]) > Len(remLog[m][t]))

\* C20 amended: for every message and type t, has_task(t) is true exactly when the
\* number of tasks of type t the message was copy-constructed with plus the number
\* of successful add_task(t) calls on it exceeds the number of successful
\* remove_task(t) calls on it; hence remove_task(t) never fails where has_task(t) is
\* true, and has_task(t) is false for a type that was given and then fully drained.
C20_HasTaskCountsGiven ==
    /\ []C20_Balance
    /\ [][\A m \in MsgIds : \A t \in TaskTypes :
             (RemoveTask(m, t) /\ HasTask(msgs[m], t)) =>
                 /\ ret'.err = "none"
                 /\ Len(remLog'[m][t]) = Len(remLog[m][t]) + 1]_vars

C20_Witness ==
    /\ msgs[2].live
    /\ Len(inherited[2]["inference"]) = 1
    /\ Len(addLog[2]["inference"]) = 1
    /\ Len(remLog[2]["inference"]) = 2
    /\ "inference" \in DOMAIN msgs[2].tasks
    /\ ~HasTask(msgs[2], "inference")


(***************************************************************************)
(* Output publication on one context (specification SpecCtx)               *)
(***************************************************************************)

InitCtx ==
    /\ msgs = [m \in MsgIds |-> NoMessage]
    /\ inherited = EmptyLogs /\ addLog = EmptyLogs /\ remLog = EmptyLogs /\ ret = NoCall
    /\ m_task_handlers = <<>>
    /\ input_message = NULLPTR
    /\ pc = "idle"
    /\ output_messages = <<>>
    /\ context = NoContext
    /\ handlerIdx = 1
    /\ result = Nullopt
    /\ error = "none"
    /\ entry_msgs = msgs
    /\ drained = <<>> /\ consultLog = <<>> /\ chosen = <<>>
    /\ execCalls = 0 /\ handleCalls = 0 /\ ctxBuilt = 0 /\ raised = <<>> /\ nodeAdds = 0
    /\ nodeRemoves = 0 /\ seenValues = {}
    /\ \E name \in CtxNames : ctx = NewContext(name)
    /\ state_values = EmptyFcn
    /\ ctxRet = NoCtxCall
    /\ RunnerIdle

NextCtx ==
    \/ \E obj \in OutObjects : SetOutput(obj)
    \/ \E key \in OutKeys, value \in OutVals : SetOutputKey(key, value)
    \/ \E names \in OutNameLists : SetOutputNames(names)
    \/ OutputsComplete

SpecCtx == InitCtx /\ [][NextCtx]_vars

\* C10: right after outputs_complete() on a context, state.values[name] holds
\* exactly the published key set: the keys of the local outputs that are also in
\* output_names when that list is not empty, the whole local outputs when it is
\* empty, each key with its local value.
C10_PublishesFilteredKeys ==
    ctxRet = [op |-> "outputs_complete", err |-> "none"] =>
        /\ ctx.name \in DOMAIN state_values
        /\ LET pub == state_values[ctx.name]
           IN  /\ DOMAIN pub = IF Len(ctx.output_names) = 0
                               THEN DOMAIN ctx.outputs
                               ELSE {k \in DOMAIN ctx.outputs :
                                        \E i \in 1..Len(ctx.output_names) :
                                            ctx.output_names[i] = k}
               /\ \A k \in DOMAIN pub : pub[k] = ctx.outputs[k]

C10_Witness ==
    /\ ctxRet = [op |-> "outputs_complete", err |-> "none"]
    /\ ctx.name = "a"
    /\ ctx.output_names = <<"y", "x">>
    /\ DOMAIN ctx.outputs = {"x"}
    /\ DOMAIN state_values["a"] = {"x"}

\* a step of a context that leaves outputs_ready as it is or makes it ready, the
\* latter only by an outputs_complete call on a pending context
C11_Step ==
    /\ ctx.ready => ctx'.ready
    /\ (~ctx.ready /\ ctx'.ready) =>
           /\ OutputsComplete
           /\ ctxRet' = [op |-> "outputs_complete", err |-> "none"]
    /\ (OutputsComplete /\ ~ctx.ready) => ctx'.ready
    /\ (OutputsComplete /\ ctx.ready) =>
           /\ ctxRet' = [op |-> "outputs_complete", err |-> "DoubleComplete"]
           /\ state_values' = state_values
           /\ ctx' = ctx

\* C11: outputs_ready goes from pending to ready at most once and never back: the
\* first outputs_complete() makes it ready, a second outputs_complete() on the same
\* context fails with DoubleComplete and publishes nothing.
C11_ReadyOnce == [][C11_Step]_vars

C11_Witness ==
    /\ ctx.ready
    /\ ctxRet = [op |-> "outputs_complete", err |-> "DoubleComplete"]
    /\ ctx.name \in DOMAIN state_values

\* a set_output call, in either form, on a published context
C12_Step ==
    (\/ \E obj \in OutObjects : SetOutput(obj)
     \/ \E key \in OutKeys, value \in OutVals : SetOutputKey(key, value)) =>
        /\ ctxRet'.err = "OutputAfterComplete"
        /\ ctx' = ctx

\* C12: once a context is published (outputs_complete has fired), every set_output
\* call on it, whole-object or key/value, is rejected, and what it published into
\* state.values[name] never changes again.
C12_PublishedIsSealed ==
    [][ctx.ready => (C12_Step /\ state_values' = state_values)]_vars

C12_Witness ==
    /\ ctx.ready
    /\ ctxRet.err = "OutputAfterComplete"
    /\ ctx.name \in DOMAIN state_values
    /\ DOMAIN state_values[ctx.name] = {"x", "y"}
    /\ DOMAIN ctx.outputs = {"x", "y"}

(***************************************************************************)
(* try_handle calls on one context (specification SpecRunner)              *)
(***************************************************************************)

InitRunner ==
    /\ msgs = [m \in MsgIds |-> NoMessage]
    /\ inherited = EmptyLogs /\ addLog = EmptyLogs /\ remLog = EmptyLogs /\ ret = NoCall
    /\ m_task_handlers = <<>>
    /\ input_message = NULLPTR
    /\ pc = "idle"
    /\ output_messages = <<>>
    /\ context = NoContext
    /\ handlerIdx = 1
    /\ result = Nullopt
    /\ error = "none"
    /\ entry_msgs = msgs
    /\ drained = <<>> /\ consultLog = <<>> /\ chosen = <<>>
    /\ execCalls = 0 /\ handleCalls = 0 /\ ctxBuilt = 0 /\ raised = <<>> /\ nodeAdds = 0
    /\ nodeRemoves = 0 /\ seenValues = {}
    /\ CtxIdle
    /\ RunnerIdle

NextRunner ==
    \/ \E h \in HandlerNames : TryHandleBegin(h)
    \/ \E outcome \in HandlerOutcomes : TryHandleEnd(outcome)

SpecRunner == InitRunner /\ [][NextRunner]_vars

\* C13: try_handle pushes exactly one child context on the given context, awaits
\* the handler on that child and returns the handler's result unchanged (its
\* exception when it fails); when try_handle has returned the child has been
\* popped, whether the handler accepted, declined or failed.
C13_ChildPoppedOnEveryExit ==
    LET r == runnerState
    IN  /\ r.pushes = Len(r.log) + (IF r.pc = "awaiting" THEN 1 ELSE 0)
        /\ r.pops = Len(r.log)
        /\ r.pc = "awaiting" => r.children = <<r.handler>>
        /\ r.pc = "idle" => r.children = <<>>
        /\ \A i \in 1..Len(r.log) :
               /\ r.log[i].ret.throws = r.log[i].outcome.throws
               /\ r.log[i].ret.res = r.log[i].outcome.res

C13_Witness ==
    /\ runnerState.pc = "idle"
    /\ Len(runnerState.log) = 2
    /\ runnerState.log[1].outcome.throws
    /\ ~runnerState.log[2].outcome.throws
    /\ runnerState.log[2].outcome.res.has_value
    /\ runnerState.children = <<>>

====
